---------------------------- MODULE Spec2Model ----------------------------
(***************************************************************************)
(* Soroban Registry API handlers (backend/api/src/handlers.rs).            *)
(*                                                                         *)
(* The store is the pair of relations `publishers` and `contracts`.  Every *)
(* sqlx statement of a handler runs directly on the pool (&state.db), so   *)
(* each statement is one atomic step and a handler with several statements *)
(* can be interleaved with other handlers between them.                    *)
(***************************************************************************)
EXTENDS Integers, Sequences, FiniteSets, TLC

VARIABLES
    publishers,   \* rows of the publishers relation
    contracts,    \* rows of the contracts relation
    calls,        \* per request slot: the handler in flight, its locals, its result
    now           \* the store's clock, source of created_at

vars == <<publishers, contracts, calls, now>>

-----------------------------------------------------------------------------
(* Bounds of the model *)

\* number of requests handled in one behaviour
MaxCalls == 2
\* last value of the store's clock
MaxClock == 1

Slots == 1..MaxCalls

-----------------------------------------------------------------------------
(* Values *)

NULL == "NULL"

Addresses == {"GA", "GB"}
ContractIds == {"CA", "CB"}
Networks == {"testnet"}

\* A row of publishers not yet read (the local `publisher` before line 173 ran)
NoPublisher ==
    [id |-> 0, stellar_address |-> NULL, username |-> NULL, email |-> NULL,
     github_url |-> NULL, website |-> NULL]

\* A row of contracts not yet read (the local `contract` before line 187 ran)
NoContract ==
    [id |-> 0, contract_id |-> NULL, wasm_hash |-> NULL, name |-> <<>>,
     description |-> <<>>, publisher_id |-> 0, network |-> NULL,
     category |-> <<>>, tags |-> <<>>, is_verified |-> FALSE, created_at |-> 0]

Idle == [kind |-> "none", pc |-> "idle"]

\* Slots are taken in order: which slot serves a request is immaterial.
CanStart(s) ==
    /\ calls[s].pc = "idle"
    /\ \A t \in Slots : t < s => calls[t].pc # "idle"

-----------------------------------------------------------------------------
(* The store: publishers *)

PublisherWith(pubs, addr) == {p \in pubs : p.stellar_address = addr}

\* Server-generated id of a new row; rows are never deleted.
FreshId(rows) == Cardinality(rows) + 1

\* ON CONFLICT (stellar_address) names the unique index on stellar_address:
\* an INSERT of an address that is present violates it.
NoUniqueViolation(pubs, addr) == FALSE
UniqueViolation(pubs, addr) == PublisherWith(pubs, addr) # {}

\* INSERT INTO publishers (stellar_address) VALUES ($1) with no conflict clause
PlainInsertRows(pubs, addr) ==
    pubs \cup {[NoPublisher EXCEPT !.id = FreshId(pubs), !.stellar_address = addr]}

\* The upsert without its conflict clause and without the index behind it
InsertIgnoringConflict(pubs, addr) == PlainInsertRows(pubs, addr)

\* An upsert whose conflict branch rewrites the row from the request, which
\* carries the address alone
UpsertOverwritingProfile(pubs, addr) ==
    IF UniqueViolation(pubs, addr)
    THEN {IF p.stellar_address = addr
          THEN [NoPublisher EXCEPT !.id = p.id, !.stellar_address = addr]
          ELSE p : p \in pubs}
    ELSE PlainInsertRows(pubs, addr)

\* INSERT ... ON CONFLICT (stellar_address) DO UPDATE
\*   SET stellar_address = EXCLUDED.stellar_address
\* the relation after the statement: the conflicting row is rewritten with the
\* address it already has, otherwise a new row is inserted.
UpsertRows(pubs, addr) ==
    IF UniqueViolation(pubs, addr)
    THEN {IF p.stellar_address = addr THEN [p EXCEPT !.stellar_address = addr] ELSE p
            : p \in pubs}
    ELSE PlainInsertRows(pubs, addr)

\* A row built from the request, which the relation holds only when the
\* address was new
ReturningUnstoredRow(pubs, addr) ==
    [NoPublisher EXCEPT !.id = FreshId(pubs), !.stellar_address = addr]

\* RETURNING * of the upsert: the row holding the address
UpsertReturning(pubs, addr) ==
    CHOOSE p \in UpsertRows(pubs, addr) : p.stellar_address = addr


-----------------------------------------------------------------------------
(* The ledger-lookup collaborator that resolves a contract's WASM hash.     *)
(* The handler never calls it (the TODO of line 183); what it would answer  *)
(* is drawn when the handler reaches that line and kept with the call.      *)

LedgerHash(network, contract_id) == "wasm_" \o network \o "_" \o contract_id

LedgerOutcomes(network, contract_id) ==
    {[kind |-> "Resolved", hash |-> LedgerHash(network, contract_id)],
     [kind |-> "NotFound", hash |-> NULL],
     [kind |-> "NetworkError", hash |-> NULL]}

NoLookup == [kind |-> "none", hash |-> NULL]

-----------------------------------------------------------------------------
(* publish_contract *)

\* let wasm_hash = "placeholder_hash".to_string();
WasmHash(lookup) == "placeholder_hash"

\* The publishers relation when the contract INSERT fails: the upsert ran as a
\* statement of its own on the pool, outside any transaction, and stays.
RolledBackPublishers(pubs, call) ==
    IF call.created THEN pubs \ {call.publisher} ELSE pubs
PublishersAfterFailedInsert(pubs, call) == pubs

\* Requests of the registration workflow
PublishRequests ==
    [contract_id : ContractIds, publisher_address : Addresses,
     name : {<<"a">>}, description : {<<"b">>}, network : Networks,
     category : {<<"d">>}, tags : {<<>>}]

\* Lines 173-181: the publisher upsert, first statement of the handler
PublishUpsert(s, req) ==
    /\ CanStart(s)
    /\ \E ok \in BOOLEAN :
         IF ok
         THEN /\ publishers' = UpsertRows(publishers, req.publisher_address)
              /\ calls' = [calls EXCEPT ![s] =
                    [kind |-> "publish", pc |-> "insert", req |-> req,
                     publisher |-> UpsertReturning(publishers, req.publisher_address),
                     created |-> ~UniqueViolation(publishers, req.publisher_address),
                     lookup |-> NoLookup, step |-> "upsert", status |-> "running",
                     contract |-> NoContract]]
         ELSE /\ publishers' = publishers
              /\ calls' = [calls EXCEPT ![s] =
                    [kind |-> "publish", pc |-> "done", req |-> req,
                     publisher |-> NoPublisher, created |-> FALSE,
                     lookup |-> NoLookup, step |-> "upsert",
                     status |-> "InternalError", contract |-> NoContract]]
    /\ UNCHANGED <<contracts, now>>

\* The contract row with no publisher bound to $5
NewContractUnowned(rows, call, wasm_hash, at) ==
    [id |-> FreshId(rows), contract_id |-> call.req.contract_id,
     wasm_hash |-> wasm_hash, name |-> call.req.name,
     description |-> call.req.description, publisher_id |-> 0,
     network |-> call.req.network, category |-> call.req.category,
     tags |-> call.req.tags, is_verified |-> FALSE, created_at |-> at]

\* The row INSERT INTO contracts ... RETURNING * writes (lines 187-199);
\* is_verified and created_at take their column defaults.
NewContract(rows, call, wasm_hash, at) ==
    [id |-> FreshId(rows), contract_id |-> call.req.contract_id,
     wasm_hash |-> wasm_hash, name |-> call.req.name,
     description |-> call.req.description, publisher_id |-> call.publisher.id,
     network |-> call.req.network, category |-> call.req.category,
     tags |-> call.req.tags, is_verified |-> FALSE, created_at |-> at]

\* Lines 183-204: the hash, the contract INSERT and the response
PublishInsert(s) ==
    /\ calls[s].kind = "publish"
    /\ calls[s].pc = "insert"
    /\ \E lk \in LedgerOutcomes(calls[s].req.network, calls[s].req.contract_id),
          ok \in BOOLEAN :
         LET row == NewContract(contracts, calls[s], WasmHash(lk), now) IN
         IF ok
         THEN /\ contracts' = contracts \cup {row}
              /\ publishers' = publishers
              /\ calls' = [calls EXCEPT ![s] =
                    [@ EXCEPT !.pc = "done", !.lookup = lk, !.step = "insert",
                              !.status = "ok", !.contract = row]]
         ELSE /\ contracts' = contracts
              /\ publishers' = PublishersAfterFailedInsert(publishers, calls[s])
              /\ calls' = [calls EXCEPT ![s] =
                    [@ EXCEPT !.pc = "done", !.lookup = lk, !.step = "insert",
                              !.status = "InternalError"]]
    /\ UNCHANGED now

-----------------------------------------------------------------------------
(* create_publisher *)

\* Bodies of create_publisher requests
PublisherDetails ==
    [stellar_address : Addresses, username : {NULL, "ann"}, email : {NULL},
     github_url : {NULL}, website : {NULL}]

\* .map_err(|_| StatusCode::INTERNAL_SERVER_ERROR) of line 236: the status of
\* a failed INSERT, whatever the store reported
CreatePublisherError(failure) == "InternalError"

\* Lines 220-239: one plain INSERT.  The call keeps what the store reported
\* (failure): nothing, the unique violation, or that it is unavailable.
CreatePublisher(s, details) ==
    /\ CanStart(s)
    /\ \E ok \in BOOLEAN :
         LET row == [id |-> FreshId(publishers),
                     stellar_address |-> details.stellar_address,
                     username |-> details.username, email |-> details.email,
                     github_url |-> details.github_url,
                     website |-> details.website]
             failure == IF ~ok THEN "unavailable"
                        ELSE IF UniqueViolation(publishers, details.stellar_address)
                        THEN "unique_violation" ELSE "none" IN
         IF failure = "none"
         THEN /\ publishers' = publishers \cup {row}
              /\ calls' = [calls EXCEPT ![s] =
                    [kind |-> "create_publisher", pc |-> "done", req |-> details,
                     failure |-> failure, status |-> "ok", publisher |-> row]]
         ELSE /\ publishers' = publishers
              /\ calls' = [calls EXCEPT ![s] =
                    [kind |-> "create_publisher", pc |-> "done", req |-> details,
                     failure |-> failure, status |-> CreatePublisherError(failure),
                     publisher |-> NoPublisher]]
    /\ UNCHANGED <<contracts, now>>

-----------------------------------------------------------------------------
(* The environment *)

\* The external verification engine marks a contract verified.
EngineMarkVerified(c) ==
    /\ c \in contracts
    /\ ~c.is_verified
    /\ contracts' = (contracts \ {c}) \cup {[c EXCEPT !.is_verified = TRUE]}
    /\ UNCHANGED <<publishers, calls, now>>

-----------------------------------------------------------------------------
(* The registration workflow: publish_contract and create_publisher *)

Init ==
    /\ publishers = {}
    /\ contracts = {}
    /\ calls = [s \in Slots |-> Idle]
    /\ now = 0

Next ==
    \/ \E s \in Slots, req \in PublishRequests : PublishUpsert(s, req)
    \/ \E s \in Slots : PublishInsert(s)
    \/ \E s \in Slots, d \in PublisherDetails : CreatePublisher(s, d)

Spec == Init /\ [][Next]_vars

-----------------------------------------------------------------------------
(* get_stats: three COUNT statements, each on the pool by itself *)

\* Lines 61-64: SELECT COUNT FROM contracts
StatsTotal(s) ==
    /\ CanStart(s)
    /\ \E ok \in BOOLEAN :
         calls' = [calls EXCEPT ![s] =
            [kind |-> "stats", pc |-> IF ok THEN "verified" ELSE "done",
             status |-> IF ok THEN "running" ELSE "InternalError",
             total_contracts |-> IF ok THEN Cardinality(contracts) ELSE 0,
             verified_contracts |-> 0, total_publishers |-> 0]]
    /\ UNCHANGED <<publishers, contracts, now>>

\* Lines 66-71: SELECT COUNT FROM contracts WHERE is_verified = true
StatsVerified(s) ==
    /\ calls[s].kind = "stats"
    /\ calls[s].pc = "verified"
    /\ \E ok \in BOOLEAN :
         calls' = [calls EXCEPT ![s] =
            IF ok
            THEN [@ EXCEPT !.pc = "publishers",
                           !.verified_contracts =
                               Cardinality({c \in contracts : c.is_verified})]
            ELSE [@ EXCEPT !.pc = "done", !.status = "InternalError"]]
    /\ UNCHANGED <<publishers, contracts, now>>

\* Lines 73-82: SELECT COUNT FROM publishers, then the response
StatsPublishers(s) ==
    /\ calls[s].kind = "stats"
    /\ calls[s].pc = "publishers"
    /\ \E ok \in BOOLEAN :
         calls' = [calls EXCEPT ![s] =
            IF ok
            THEN [@ EXCEPT !.pc = "done", !.status = "ok",
                           !.total_publishers = Cardinality(publishers)]
            ELSE [@ EXCEPT !.pc = "done", !.status = "InternalError"]]
    /\ UNCHANGED <<publishers, contracts, now>>

\* get_stats beside publish_contract calls and the verification engine
NextStats ==
    \/ \E s \in Slots, req \in PublishRequests : PublishUpsert(s, req)
    \/ \E s \in Slots : PublishInsert(s)
    \/ \E c \in contracts : EngineMarkVerified(c)
    \/ \E s \in Slots : StatsTotal(s)
    \/ \E s \in Slots : StatsVerified(s)
    \/ \E s \in Slots : StatsPublishers(s)

SpecStats == Init /\ [][NextStats]_vars

\* C3: every result get_stats returns has 0 <= verified_contracts <=
\* total_contracts.
C3_VerifiedAtMostTotal ==
    \A s \in Slots :
        (calls[s].kind = "stats" /\ calls[s].pc = "done" /\ calls[s].status = "ok")
        => /\ 0 <= calls[s].verified_contracts
           /\ calls[s].verified_contracts <= calls[s].total_contracts

-----------------------------------------------------------------------------
(* Properties of the registration workflow *)

\* publish_contract calls whose publisher step (the upsert) succeeded for addr
Registered(addr) ==
    {s \in Slots : /\ calls[s].kind = "publish"
                   /\ calls[s].req.publisher_address = addr
                   /\ calls[s].publisher # NoPublisher}

\* C1: once any publish_contract call for an address has passed its publisher
\* step, in whatever order the calls' statements ran, the publishers relation
\* holds exactly one row for that address and all those calls hold a Publisher
\* with the same id.
C1_OneRowSameId ==
    \A a \in Addresses :
        Registered(a) # {} =>
            /\ Cardinality(PublisherWith(publishers, a)) = 1
            /\ \A s, t \in Registered(a) :
                   calls[s].publisher.id = calls[t].publisher.id

\* Two publish_contract calls for one address are both between their upsert
\* and their contract INSERT.
C1_Witness ==
    \E s, t \in Slots :
        /\ s # t
        /\ calls[s].kind = "publish" /\ calls[s].pc = "insert"
        /\ calls[t].kind = "publish" /\ calls[t].pc = "insert"
        /\ calls[s].req.publisher_address = calls[t].req.publisher_address

\* C2: a publish_contract call whose ledger lookup fails (NotFound or
\* NetworkError) returns a failure and inserts no Contract row, and the
\* Publisher row of its step 1 is still present.
C2_LookupFailureFailsCall ==
    \A s \in Slots :
        (/\ calls[s].kind = "publish"
         /\ calls[s].pc = "done"
         /\ calls[s].lookup.kind \in {"NotFound", "NetworkError"})
        => /\ calls[s].status # "ok"
           /\ calls[s].contract \notin contracts
           /\ PublisherWith(publishers, calls[s].req.publisher_address) # {}

\* C6: when a publish_contract call created the publisher and then failed at
\* the contract INSERT, the row it created is still in publishers, it is the
\* only row of that address, and every other call for the address that
\* passed its publisher step holds the same publisher id.
C6_PublisherSurvivesFailedInsert ==
    \A s \in Slots :
        (/\ calls[s].kind = "publish"
         /\ calls[s].pc = "done"
         /\ calls[s].step = "insert"
         /\ calls[s].status = "InternalError"
         /\ calls[s].created)
        => LET a == calls[s].req.publisher_address IN
           /\ \E p \in publishers : /\ p.id = calls[s].publisher.id
                                    /\ p.stellar_address = a
           /\ Cardinality(PublisherWith(publishers, a)) = 1
           /\ \A t \in Registered(a) :
                  calls[t].publisher.id = calls[s].publisher.id

\* A call created the publisher and failed at the contract INSERT, and a retry
\* with the same address has run its upsert onto the existing row.
C6_Witness ==
    \E s, t \in Slots :
        /\ s # t
        /\ calls[s].kind = "publish" /\ calls[s].pc = "done"
        /\ calls[s].step = "insert" /\ calls[s].status = "InternalError"
        /\ calls[s].created
        /\ calls[t].kind = "publish"
        /\ calls[t].req.publisher_address = calls[s].req.publisher_address
        /\ calls[t].publisher # NoPublisher
        /\ ~calls[t].created

\* C7: no two rows of publishers have the same address.
C7_UniqueAddress ==
    \A p, q \in publishers : p.stellar_address = q.stellar_address => p = q

\* create_publisher inserted an address and a publish_contract call then ran
\* its upsert for the same address.
C7_Witness ==
    \E s, t \in Slots :
        /\ calls[s].kind = "create_publisher" /\ calls[s].status = "ok"
        /\ calls[t].kind = "publish"
        /\ calls[t].publisher # NoPublisher
        /\ ~calls[t].created
        /\ calls[t].req.publisher_address = calls[s].req.stellar_address

\* C10: every Contract row's content hash is the hash the ledger resolves for
\* the row's (network, contract_id).
C10_HashIsResolved ==
    \A c \in contracts : c.wasm_hash = LedgerHash(c.network, c.contract_id)

-----------------------------------------------------------------------------
(* list_contracts: the request and its normalisation (lines 90-92) *)

\* Option<T>
Some(v) == [some |-> TRUE, v |-> v]
NoInt == [some |-> FALSE, v |-> 0]
NoText == [some |-> FALSE, v |-> <<>>]
NoBool == [some |-> FALSE, v |-> FALSE]
UnwrapOr(o, default) == IF o.some THEN o.v ELSE default

Max(a, b) == IF a >= b THEN a ELSE b
Min(a, b) == IF a <= b THEN a ELSE b

DefaultPage == 1
DefaultPageSize == 20
MaxPageSize == 100

\* let page = params.page.unwrap_or(1).max(1);
Page(params) == Max(UnwrapOr(params.page, DefaultPage), 1)

\* let page_size = params.page_size.unwrap_or(20).min(100);
PageSize(params) == Min(UnwrapOr(params.page_size, DefaultPageSize), MaxPageSize)

\* let offset = (page - 1) * page_size;
Offset(params) == (Page(params) - 1) * PageSize(params)

-----------------------------------------------------------------------------
(* list_contracts: the command text (lines 95-120).  A text is a sequence   *)
(* of pieces: the words of the handler's own fragments, and the characters  *)
(* of the request's strings one by one, as format! pastes them.             *)

SelectHead == <<"SELECT * FROM contracts WHERE 1=1">>
CountHead == <<"SELECT COUNT(*) FROM contracts WHERE 1=1">>

\* format!(" AND (name ILIKE '%{}%' OR description ILIKE '%{}%')", q, q)
SearchClause(q) ==
    <<" AND (name ILIKE ", "'", "%">> \o q \o
    <<"%", "'", " OR description ILIKE ", "'", "%">> \o q \o <<"%", "'", ")">>

VerifiedClause == <<" AND is_verified = true">>

\* format!(" AND category = '{}'", category)
CategoryClause(category) == <<" AND category = ", "'">> \o category \o <<"'">>

\* format!(" ORDER BY created_at DESC LIMIT {} OFFSET {}", page_size, offset)
OrderLimitClause(page_size, offset) ==
    <<" ORDER BY created_at DESC LIMIT ", ToString(page_size),
      " OFFSET ", ToString(offset)>>

\* The clauses both texts receive (lines 98-118)
FilterClauses(params) ==
    (IF params.query.some THEN SearchClause(params.query.v) ELSE <<>>) \o
    (IF params.verified_only.some /\ params.verified_only.v
        THEN VerifiedClause ELSE <<>>) \o
    (IF params.category.some THEN CategoryClause(params.category.v) ELSE <<>>)

QueryText(params) ==
    SelectHead \o FilterClauses(params) \o
    OrderLimitClause(PageSize(params), Offset(params))

CountQueryText(params) == CountHead \o FilterClauses(params)

-----------------------------------------------------------------------------
(* The store reading a command text (sqlx::query_as(&query), lines 122-130) *)
(* It scans string literals and comments, then recognises the conjuncts the *)
(* handler's fragments can form; any other text is a syntax error.          *)

Word(t) == [k |-> "word", v |-> <<t>>]
Literal(l) == [k |-> "lit", v |-> l]
ScanError == <<[k |-> "error", v |-> <<>>]>>

\* A quote opens a literal; inside it, two quotes are one quote character and
\* a single quote closes it; two dashes outside a literal start a comment
\* that runs to the end of the text.
RECURSIVE ScanFrom(_, _, _, _, _)
ScanFrom(text, i, inLit, lit, out) ==
    IF i > Len(text)
    THEN IF inLit THEN ScanError ELSE out
    ELSE
      LET t == text[i]
          more == i < Len(text) IN
      IF inLit
      THEN IF t = "'"
           THEN IF more /\ text[i + 1] = "'"
                THEN ScanFrom(text, i + 2, TRUE, Append(lit, "'"), out)
                ELSE ScanFrom(text, i + 1, FALSE, <<>>, Append(out, Literal(lit)))
           ELSE ScanFrom(text, i + 1, TRUE, Append(lit, t), out)
      ELSE IF t = "'"
           THEN ScanFrom(text, i + 1, TRUE, <<>>, out)
           ELSE IF t = "-" /\ more /\ text[i + 1] = "-"
                THEN out
                ELSE ScanFrom(text, i + 1, FALSE, <<>>, Append(out, Word(t)))

Scan(text) == ScanFrom(text, 1, FALSE, <<>>, <<>>)

\* Largest numeral the store is asked to read back
MaxNumeral == 200
Numerals == (0 - MaxNumeral)..MaxNumeral
IsNumeral(item) ==
    item.k = "word" /\ \E n \in Numerals : ToString(n) = item.v[1]
NumeralValue(item) == CHOOSE n \in Numerals : ToString(n) = item.v[1]

Pred(k, a, b) == [k |-> k, a |-> a, b |-> b]
BadPlan == [ok |-> FALSE, preds |-> <<>>, limited |-> FALSE, limit |-> 0, offset |-> 0]

\* The WHERE conjuncts and the ORDER BY ... LIMIT ... OFFSET tail
RECURSIVE ParseFrom(_, _, _)
ParseFrom(items, i, preds) ==
    LET n == Len(items)
        is(j, t) == j <= n /\ items[j] = Word(t)
        lit(j) == j <= n /\ items[j].k = "lit" IN
    IF i > n
    THEN [ok |-> TRUE, preds |-> preds, limited |-> FALSE, limit |-> 0, offset |-> 0]
    ELSE IF is(i, " AND (name ILIKE ") /\ lit(i + 1)
              /\ is(i + 2, " OR description ILIKE ") /\ lit(i + 3) /\ is(i + 4, ")")
    THEN ParseFrom(items, i + 5,
                   Append(preds, Pred("ilike2", items[i + 1].v, items[i + 3].v)))
    ELSE IF is(i, " AND (name ILIKE ") /\ lit(i + 1) /\ is(i + 2, ")")
    THEN ParseFrom(items, i + 3, Append(preds, Pred("ilike1", items[i + 1].v, <<>>)))
    ELSE IF is(i, " AND is_verified = true")
    THEN ParseFrom(items, i + 1, Append(preds, Pred("verified", <<>>, <<>>)))
    ELSE IF is(i, " AND category = ") /\ lit(i + 1)
    THEN ParseFrom(items, i + 2, Append(preds, Pred("category", items[i + 1].v, <<>>)))
    ELSE IF is(i, " ORDER BY created_at DESC LIMIT ") /\ i + 3 = n
              /\ IsNumeral(items[i + 1]) /\ is(i + 2, " OFFSET ")
              /\ IsNumeral(items[i + 3])
    THEN [ok |-> TRUE, preds |-> preds, limited |-> TRUE,
          limit |-> NumeralValue(items[i + 1]), offset |-> NumeralValue(items[i + 3])]
    ELSE BadPlan

\* The plan of a text with the given head
Plan(text, head) ==
    LET items == Scan(text) IN
    IF items = ScanError \/ Len(items) < 1 \/ items[1] # Word(head[1])
    THEN BadPlan
    ELSE ParseFrom(items, 2, <<>>)

Lower(ch) == CASE ch = "A" -> "a" [] ch = "B" -> "b" [] ch = "C" -> "c" [] OTHER -> ch
LowerText(t) == [i \in 1..Len(t) |-> Lower(t[i])]

\* LIKE: % matches any run of characters, _ any one character
RECURSIVE Like(_, _)
Like(t, pattern) ==
    IF pattern = <<>> THEN t = <<>>
    ELSE IF Head(pattern) = "%"
         THEN Like(t, Tail(pattern)) \/ (t # <<>> /\ Like(Tail(t), pattern))
         ELSE /\ t # <<>>
              /\ (Head(pattern) = "_" \/ Head(pattern) = Head(t))
              /\ Like(Tail(t), Tail(pattern))

ILike(t, pattern) == Like(LowerText(t), LowerText(pattern))

RowMatches(c, pred) ==
    CASE pred.k = "ilike2" -> ILike(c.name, pred.a) \/ ILike(c.description, pred.b)
      [] pred.k = "ilike1" -> ILike(c.name, pred.a)
      [] pred.k = "verified" -> c.is_verified
      [] pred.k = "category" -> c.category = pred.a

Matching(plan, rows) ==
    {c \in rows : \A i \in 1..Len(plan.preds) : RowMatches(c, plan.preds[i])}

\* ORDER BY created_at DESC: every arrangement of the rows with created_at
\* not increasing; rows of one created_at come in any order.
Orderings(rows) ==
    {o \in [1..Cardinality(rows) -> rows] :
        /\ \A i, j \in DOMAIN o : i # j => o[i] # o[j]
        /\ \A i, j \in DOMAIN o : i < j => o[i].created_at >= o[j].created_at}

\* OFFSET offset LIMIT limit of an arrangement
Slice(o, offset, limit) == SubSeq(o, offset + 1, Min(Len(o), offset + limit))

\* The results SELECT can return: an error for a text the store rejects or a
\* negative LIMIT or OFFSET, otherwise the rows of one arrangement.
SelectResults(text, rows) ==
    LET plan == Plan(text, SelectHead) IN
    IF ~plan.ok \/ (plan.limited /\ (plan.limit < 0 \/ plan.offset < 0))
    THEN {[ok |-> FALSE, items |-> <<>>]}
    ELSE {[ok |-> TRUE,
           items |-> IF plan.limited THEN Slice(o, plan.offset, plan.limit) ELSE o]
            : o \in Orderings(Matching(plan, rows))}

\* The result of SELECT COUNT
CountResult(text, rows) ==
    LET plan == Plan(text, CountHead) IN
    IF ~plan.ok \/ plan.limited
    THEN [ok |-> FALSE, total |-> 0]
    ELSE [ok |-> TRUE, total |-> Cardinality(Matching(plan, rows))]

-----------------------------------------------------------------------------
(* list_contracts *)

\* Lines 86-125: the normalisation, the two texts and the page SELECT.
\* The call keeps the store it read the page from (page_store).
ListPage(s, params) ==
    /\ CanStart(s)
    /\ \E ok \in BOOLEAN, r \in SelectResults(QueryText(params), contracts) :
         calls' = [calls EXCEPT ![s] =
            [kind |-> "list", pc |-> IF ok /\ r.ok THEN "count" ELSE "done",
             status |-> IF ok /\ r.ok THEN "running" ELSE "InternalError",
             params |-> params, page |-> Page(params),
             page_size |-> PageSize(params), offset |-> Offset(params),
             count_query |-> CountQueryText(params),
             items |-> IF ok /\ r.ok THEN r.items ELSE <<>>, total |-> 0,
             page_store |-> contracts, count_store |-> {}]]
    /\ UNCHANGED <<publishers, contracts, now>>

\* Lines 127-132: the COUNT and PaginatedResponse::new(contracts, total, page,
\* page_size).  The call keeps the store it counted (count_store).
ListCount(s) ==
    /\ calls[s].kind = "list"
    /\ calls[s].pc = "count"
    /\ \E ok \in BOOLEAN :
         LET r == CountResult(calls[s].count_query, contracts) IN
         calls' = [calls EXCEPT ![s] =
            IF ok /\ r.ok
            THEN [@ EXCEPT !.pc = "done", !.status = "ok", !.total = r.total,
                           !.count_store = contracts]
            ELSE [@ EXCEPT !.pc = "done", !.status = "InternalError",
                           !.items = <<>>]]
    /\ UNCHANGED <<publishers, contracts, now>>

\* Requests: every pagination with no filter, and every filter combination
\* on pages of one row.
Pages == {NoInt, Some(0), Some(2)}
PageSizes == {NoInt, Some(0 - 1), Some(0), Some(1), Some(500)}
Queries ==
    {NoText, Some(<<"a">>), Some(<<"%">>), Some(<<"'">>),
     Some(<<"'", ")", "-", "-">>)}
ListRequests ==
    [page : Pages, page_size : PageSizes, query : {NoText},
     verified_only : {NoBool}, category : {NoText}]
    \cup
    [page : {NoInt, Some(2)}, page_size : {Some(1)}, query : Queries,
     verified_only : {NoBool, Some(TRUE), Some(FALSE)},
     category : {NoText, Some(<<"d">>)}]

\* publish_contract requests beside list_contracts
SeedRequests ==
    <<[contract_id |-> "CA", publisher_address |-> "GA", name |-> <<"A", "b">>,
       description |-> <<"x">>, network |-> "testnet", category |-> <<"d">>,
       tags |-> <<>>],
      [contract_id |-> "CB", publisher_address |-> "GA", name |-> <<"c">>,
       description |-> <<"a">>, network |-> "testnet", category |-> <<"e">>,
       tags |-> <<>>]>>
ListPublishRequests == {SeedRequests[1], SeedRequests[2]}

\* number of contracts published before the behaviour starts
MaxSeed == 1

\* The contracts relation after publish_contract succeeded for the first i
\* SeedRequests at times[1..i] and the engine verified those flagged.
RECURSIVE SeedRows(_, _, _)
SeedRows(verified, times, i) ==
    IF i = 0 THEN {}
    ELSE LET before == SeedRows(verified, times, i - 1)
             req == SeedRequests[((i - 1) % Len(SeedRequests)) + 1]
             call == [req |-> req,
                      publisher |-> UpsertReturning({}, req.publisher_address)]
         IN before \cup
            {[NewContract(before, call, WasmHash(NoLookup), times[i])
                 EXCEPT !.is_verified = verified[i]]}

\* A store earlier publish_contract calls filled, no request in flight
InitList ==
    /\ calls = [s \in Slots |-> Idle]
    /\ \E k \in 0..MaxSeed :
         \E verified \in [1..k -> BOOLEAN], times \in [1..k -> 0..MaxClock] :
            /\ \A i, j \in 1..k : i < j => times[i] <= times[j]
            /\ contracts = SeedRows(verified, times, k)
            /\ publishers = IF k = 0 THEN {} ELSE UpsertRows({}, "GA")
            /\ now \in (IF k = 0 THEN 0 ELSE times[k])..MaxClock

\* One list_contracts call beside one publish_contract call and the
\* verification engine
NextList ==
    \/ /\ \A t \in Slots : calls[t].kind # "list"
       /\ \E s \in Slots, params \in ListRequests : ListPage(s, params)
    \/ \E s \in Slots : ListCount(s)
    \/ /\ \A t \in Slots : calls[t].kind # "publish"
       /\ \E s \in Slots, req \in ListPublishRequests : PublishUpsert(s, req)
    \/ \E s \in Slots : PublishInsert(s)
    \/ \E c \in contracts : EngineMarkVerified(c)

SpecList == InitList /\ [][NextList]_vars

\* One list_contracts call beside one publish_contract call alone
NextListPublish ==
    \/ /\ \A t \in Slots : calls[t].kind # "list"
       /\ \E s \in Slots, params \in ListRequests : ListPage(s, params)
    \/ \E s \in Slots : ListCount(s)
    \/ /\ \A t \in Slots : calls[t].kind # "publish"
       /\ \E s \in Slots, req \in ListPublishRequests : PublishUpsert(s, req)
    \/ \E s \in Slots : PublishInsert(s)

SpecListPublish == InitList /\ [][NextListPublish]_vars

-----------------------------------------------------------------------------
(* Properties of list_contracts *)

\* The filter as the specification words it: the term occurs in the name or
\* the description, case-insensitively; verified_only = true keeps verified
\* contracts; the category is equal.
Contains(t, term) ==
    \E i \in 0..(Len(t) - Len(term)) :
        SubSeq(LowerText(t), i + 1, i + Len(term)) = LowerText(term)

Satisfies(c, params) ==
    /\ params.query.some =>
          Contains(c.name, params.query.v) \/ Contains(c.description, params.query.v)
    /\ (params.verified_only.some /\ params.verified_only.v) => c.is_verified
    /\ params.category.some => c.category = params.category.v

Returned(s) ==
    calls[s].kind = "list" /\ calls[s].pc = "done" /\ calls[s].status = "ok"

\* C4: when the store is the same at both reads, total is the number of
\* contracts satisfying all supplied predicates, and items are the positions
\* [offset, offset + page_size) of those contracts in an order of descending
\* creation time.
C4_FilteredCountAndSlice ==
    \A s \in Slots :
        (Returned(s) /\ calls[s].page_store = calls[s].count_store) =>
            LET filtered == {c \in calls[s].page_store : Satisfies(c, calls[s].params)}
            IN /\ calls[s].total = Cardinality(filtered)
               /\ \E o \in Orderings(filtered) :
                     calls[s].items = Slice(o, calls[s].offset, calls[s].page_size)

Clamp(v, lo, hi) == Max(lo, Min(v, hi))

\* C5: the page size a list_contracts call put after LIMIT and reports in its
\* result is clamp(requested, 1, 100), and 20 when page_size is absent.
C5_PageSizeClamped ==
    \A s \in Slots :
        Returned(s) =>
            calls[s].page_size =
                IF calls[s].params.page_size.some
                THEN Clamp(calls[s].params.page_size.v, 1, 100)
                ELSE 20

\* C8: every successful response has at most page_size items and a total of
\* at least the number of items.
C8_ItemsWithinPageAndTotal ==
    \A s \in Slots :
        Returned(s) =>
            /\ Len(calls[s].items) <= calls[s].page_size
            /\ calls[s].total >= Len(calls[s].items)

\* C9: beside concurrent publish_contract calls, the total a response
\* carries is the count of its filter in the store state the items were read
\* from.
C9_TotalOfPageStore ==
    \A s \in Slots :
        Returned(s) =>
            calls[s].total = CountResult(calls[s].count_query, calls[s].page_store).total

-----------------------------------------------------------------------------
(* Properties of create_publisher *)

\* C11: a create_publisher call whose address already has a Publisher row
\* fails with Conflict, not with InternalError, and adds no row.
C11_DuplicateIsConflict ==
    \A s \in Slots :
        (/\ calls[s].kind = "create_publisher"
         /\ calls[s].failure = "unique_violation")
        => /\ calls[s].status = "Conflict"
           /\ Cardinality(PublisherWith(publishers, calls[s].req.stellar_address)) = 1

-----------------------------------------------------------------------------
(* health_check (lines 17-55) *)

\* Bound on the seconds the process clock advances.
MaxElapsed == 3

\* state.started_at: taken once when the process is constructed, never written.
StartedAt == 0

\* Line 20: started_at.elapsed().as_secs(), the whole seconds from started_at
\* to the monotonic clock's reading `at`.
Uptime(at) == at - StartedAt

AlwaysOk(db_ok) == "ok"
\* Lines 30-54: the "status" member of the body.
HealthStatus(db_ok) == IF db_ok THEN "ok" ELSE "degraded"

\* Lines 30-54: the status code beside the body.
HealthCode(db_ok) == IF db_ok THEN 200 ELSE 503

\* Lines 20-26: the uptime is read on entry, then the probe is sent.
HealthEnter(s) ==
    /\ CanStart(s)
    /\ calls' = [calls EXCEPT ![s] =
                    [kind |-> "health_check", pc |-> "probe",
                     entered |-> now, uptime |-> Uptime(now)]]
    /\ UNCHANGED <<publishers, contracts, now>>

\* Lines 25-54: SELECT 1 answers or fails; either way a body is returned.
HealthProbe(s) ==
    /\ calls[s].kind = "health_check"
    /\ calls[s].pc = "probe"
    /\ \E db_ok \in BOOLEAN :
        calls' = [calls EXCEPT ![s] =
                    [kind |-> "health_check", pc |-> "done",
                     entered |-> calls[s].entered, uptime |-> calls[s].uptime,
                     probe |-> db_ok, returned |-> "status_value",
                     code |-> HealthCode(db_ok),
                     status |-> HealthStatus(db_ok),
                     uptime_secs |-> calls[s].uptime]]
    /\ UNCHANGED <<publishers, contracts, now>>

\* The process clock advances by a second.
Tick ==
    /\ now < MaxElapsed
    /\ now' = now + 1
    /\ UNCHANGED <<publishers, contracts, calls>>

NextHealth ==
    \/ \E s \in Slots : HealthEnter(s)
    \/ \E s \in Slots : HealthProbe(s)
    \/ Tick

SpecHealth == Init /\ [][NextHealth]_vars

\* C12: health_check always returns a status value: "degraded" exactly when
\* the probe fails and "ok" exactly when it succeeds, and either way the body
\* carries the same non-negative uptime, the seconds from the process start
\* to the call's entry.
C12_StatusFollowsProbe ==
    \A s \in Slots :
        (calls[s].kind = "health_check" /\ calls[s].pc = "done")
        => /\ calls[s].returned = "status_value"
           /\ calls[s].status \in {"ok", "degraded"}
           /\ (calls[s].status = "degraded") <=> ~calls[s].probe
           /\ (calls[s].status = "ok") <=> calls[s].probe
           /\ calls[s].uptime_secs = calls[s].entered - StartedAt
           /\ calls[s].uptime_secs >= 0

\* One call answered "degraded" and another "ok", both after the clock moved.
C12_Witness ==
    \E s, t \in Slots :
        /\ calls[s].kind = "health_check" /\ calls[s].pc = "done"
        /\ calls[t].kind = "health_check" /\ calls[t].pc = "done"
        /\ ~calls[s].probe /\ calls[s].status = "degraded"
        /\ calls[t].probe /\ calls[t].status = "ok"
        /\ calls[s].uptime_secs > 0
        /\ calls[s].uptime_secs = calls[t].uptime_secs

-----------------------------------------------------------------------------
(* Properties of the command text and the order of list_contracts *)

\* Two requests that differ at most in the values of the free-text query and
\* of the category: the same filters are present, the rest is equal.
DifferOnlyInValues(p, q) ==
    /\ p.page = q.page
    /\ p.page_size = q.page_size
    /\ p.verified_only = q.verified_only
    /\ p.query.some = q.query.some
    /\ p.category.some = q.category.some

\* C13: the texts a list_contracts call sends to the store depend only on
\* which filters are present: every request that differs from the call's
\* only in the values of the query and the category produces the same texts.
C13_TextIndependentOfValues ==
    \A s \in Slots :
        calls[s].kind = "list" =>
            \A p \in ListRequests :
                DifferOnlyInValues(p, calls[s].params) =>
                    /\ QueryText(p) = QueryText(calls[s].params)
                    /\ CountQueryText(p) = calls[s].count_query

\* C14: the order is total and deterministic: the items a list_contracts
\* call returned are the only answer its request has on the store state it
\* read, rows sharing a creation timestamp included.
C14_OneAnswerPerStore ==
    \A s \in Slots :
        Returned(s) =>
            \A r \in SelectResults(QueryText(calls[s].params), calls[s].page_store) :
                r.ok => r.items = calls[s].items

-----------------------------------------------------------------------------
(* Properties of the rows publish_contract writes *)

\* The step of slot s is the upsert of a publish_contract call that succeeds.
UpsertStep(s) ==
    /\ calls[s].kind = "none"
    /\ calls'[s].kind = "publish"
    /\ calls'[s].pc = "insert"

\* The step of slot s is the contract INSERT that completes a call with Ok.
InsertStep(s) ==
    /\ calls[s].kind = "publish"
    /\ calls[s].pc = "insert"
    /\ calls'[s].status = "ok"

\* C15: a successful publish_contract call adds exactly one Contract row,
\* whose publisher reference is the id of the Publisher row holding the
\* request's address, and adds exactly one Publisher row if the address had
\* none and no Publisher row otherwise.
C15_OneContractOwnedByAddress ==
    [][\A s \in Slots :
        /\ UpsertStep(s) =>
              /\ contracts' = contracts
              /\ Cardinality(publishers') = Cardinality(publishers) +
                    (IF PublisherWith(publishers, calls'[s].req.publisher_address) = {}
                     THEN 1 ELSE 0)
              /\ publishers \subseteq publishers'
        /\ InsertStep(s) =>
              /\ publishers' = publishers
              /\ Cardinality(contracts') = Cardinality(contracts) + 1
              /\ contracts \subseteq contracts'
              /\ \A c \in contracts' \ contracts :
                    \E p \in publishers' :
                        /\ p.stellar_address = calls[s].req.publisher_address
                        /\ c.publisher_id = p.id
                        /\ c = calls'[s].contract
      ]_vars

\* One call succeeded having inserted its publisher, another having found
\* the publisher of its address; the contract of each is stored.
C15_Witness ==
    \E s, t \in Slots :
        /\ calls[s].kind = "publish" /\ calls[s].status = "ok" /\ calls[s].created
        /\ calls[t].kind = "publish" /\ calls[t].status = "ok" /\ ~calls[t].created
        /\ calls[s].contract \in contracts
        /\ calls[t].contract \in contracts
        /\ calls[s].contract # calls[t].contract

-----------------------------------------------------------------------------
(* Properties of the page and the offset of list_contracts *)

\* C16: the effective page is 1 when page is absent or below 1 and the
\* requested page otherwise, and the offset is (page - 1) * page_size of the
\* normalised values, so it is never negative.
C16_OffsetOfNormalisedPage ==
    \A s \in Slots :
        calls[s].kind = "list" =>
            /\ calls[s].page =
                  IF calls[s].params.page.some /\ calls[s].params.page.v >= 1
                  THEN calls[s].params.page.v
                  ELSE 1
            /\ calls[s].offset = (calls[s].page - 1) * calls[s].page_size
            /\ calls[s].offset >= 0

-----------------------------------------------------------------------------
(* Referential integrity of contracts *)

\* C17: the publisher reference of every Contract row is the id of a
\* Publisher row in the store.
C17_ContractHasPublisher ==
    \A c \in contracts : \E p \in publishers : p.id = c.publisher_id

\* Two calls returned Ok for two addresses; the contract of each is stored
\* and they refer to two publishers.
C17_Witness ==
    \E s, t \in Slots :
        /\ calls[s].kind = "publish" /\ calls[s].status = "ok"
        /\ calls[t].kind = "publish" /\ calls[t].status = "ok"
        /\ calls[s].req.publisher_address # calls[t].req.publisher_address
        /\ {calls[s].contract, calls[t].contract} \subseteq contracts
        /\ calls[s].contract.publisher_id # calls[t].contract.publisher_id

-----------------------------------------------------------------------------
(* verify_contract (lines 208-217) *)

\* Json(_req): the body names a contract; the handler does not read it.
VerifyRequests == [contract_id : ContractIds]

\* The contracts relation with the requested contract marked verified
MarkedVerified(rows, req) ==
    {IF c.contract_id = req.contract_id THEN [c EXCEPT !.is_verified = TRUE] ELSE c
        : c \in rows}
\* The contracts relation after the handler: _state is not used.
ContractsAfterVerify(rows, req) == rows

\* Lines 213-216: the body of the acknowledgement
VerifyResponse(req) == [status |-> "pending", message |-> "Verification started"]

\* The whole handler is one step: it has no await before it returns.
VerifyContract(s, req) ==
    /\ CanStart(s)
    /\ contracts' = ContractsAfterVerify(contracts, req)
    /\ calls' = [calls EXCEPT ![s] =
                    [kind |-> "verify", pc |-> "done", req |-> req,
                     status |-> "ok", response |-> VerifyResponse(req)]]
    /\ UNCHANGED <<publishers, now>>

\* verify_contract beside publish_contract and the verification engine
NextVerify ==
    \/ \E s \in Slots, req \in PublishRequests : PublishUpsert(s, req)
    \/ \E s \in Slots : PublishInsert(s)
    \/ \E c \in contracts : EngineMarkVerified(c)
    \/ \E s \in Slots, req \in VerifyRequests : VerifyContract(s, req)

SpecVerify == Init /\ [][NextVerify]_vars

\* C18: verify_contract acknowledges every request with state "pending" in
\* the step that receives it, whatever the engine has done, and that step
\* leaves the contracts relation as it was.
C18_PendingAndUnchanged ==
    [][\A s \in Slots :
        /\ (calls[s].kind = "none" /\ calls'[s].kind = "verify") =>
              /\ calls'[s].pc = "done"
              /\ calls'[s].status = "ok"
              /\ calls'[s].response.status = "pending"
              /\ contracts' = contracts
        /\ (calls[s].kind = "verify") => calls'[s] = calls[s]
      ]_vars

\* A request for a stored contract the engine has not verified was
\* acknowledged, and the contract is still unverified.
C18_Witness ==
    \E s \in Slots :
        /\ calls[s].kind = "verify"
        /\ calls[s].response.status = "pending"
        /\ \E c \in contracts :
              c.contract_id = calls[s].req.contract_id /\ ~c.is_verified

-----------------------------------------------------------------------------
(* get_contract (lines 136-149) and get_publisher (lines 242-255) *)

\* Path(id): ids of rows the store can hold and one it cannot
LookupIds == 1..(MaxCalls + 1)

\* fetch_one of SELECT * FROM <rows> WHERE id = $1: the row, or the error
\* RowNotFound when the statement ran and matched none, or the error of a
\* store that could not run the statement.
FetchOne(rows, id, ok) ==
    IF ~ok THEN [failure |-> "unavailable", found |-> {}]
    ELSE IF {r \in rows : r.id = id} = {}
         THEN [failure |-> "row_not_found", found |-> {}]
         ELSE [failure |-> "none", found |-> {r \in rows : r.id = id}]

\* Line 146: .map_err(|_| StatusCode::NOT_FOUND)
GetContractError(failure) == "NotFound"

\* Line 252: .map_err(|_| StatusCode::NOT_FOUND)
GetPublisherError(failure) == "NotFound"

GetContract(s, id) ==
    /\ CanStart(s)
    /\ \E ok \in BOOLEAN :
         LET r == FetchOne(contracts, id, ok) IN
         calls' = [calls EXCEPT ![s] =
            [kind |-> "get_contract", pc |-> "done", id |-> id,
             failure |-> r.failure, found |-> r.found,
             status |-> IF r.failure = "none" THEN "ok"
                        ELSE GetContractError(r.failure)]]
    /\ UNCHANGED <<publishers, contracts, now>>

GetPublisher(s, id) ==
    /\ CanStart(s)
    /\ \E ok \in BOOLEAN :
         LET r == FetchOne(publishers, id, ok) IN
         calls' = [calls EXCEPT ![s] =
            [kind |-> "get_publisher", pc |-> "done", id |-> id,
             failure |-> r.failure, found |-> r.found,
             status |-> IF r.failure = "none" THEN "ok"
                        ELSE GetPublisherError(r.failure)]]
    /\ UNCHANGED <<publishers, contracts, now>>

\* The single-entity reads beside publish_contract
NextGet ==
    \/ \E s \in Slots, req \in PublishRequests : PublishUpsert(s, req)
    \/ \E s \in Slots : PublishInsert(s)
    \/ \E s \in Slots, id \in LookupIds : GetContract(s, id)
    \/ \E s \in Slots, id \in LookupIds : GetPublisher(s, id)

SpecGet == Init /\ [][NextGet]_vars

\* C19: get_contract and get_publisher return NotFound only when the store
\* ran the statement and held no row of the id; a store that could not run
\* the statement is reported as InternalError.
C19_NotFoundOnlyForMissingRow ==
    \A s \in Slots :
        calls[s].kind \in {"get_contract", "get_publisher"} =>
            /\ calls[s].status = "NotFound" => calls[s].failure = "row_not_found"
            /\ calls[s].failure = "unavailable" => calls[s].status = "InternalError"

-----------------------------------------------------------------------------
(* The conflict branch of the publisher upsert *)

\* C20: when the request's address already has a Publisher row, the upsert
\* of publish_contract leaves the row's id, address, username, email and
\* profile links as they were, values written by create_publisher included,
\* and the call works with that row.
C20_ConflictKeepsProfile ==
    [][\A s \in Slots :
        (/\ UpsertStep(s)
         /\ PublisherWith(publishers, calls'[s].req.publisher_address) # {})
        => /\ publishers' = publishers
           /\ calls'[s].publisher \in
                 PublisherWith(publishers, calls'[s].req.publisher_address)
      ]_vars

\* A publish_contract call found the row create_publisher had written with a
\* username, and the row is in the store as it was returned.
C20_Witness ==
    \E s, t \in Slots :
        /\ calls[t].kind = "create_publisher" /\ calls[t].status = "ok"
        /\ calls[t].publisher.username = "ann"
        /\ calls[s].kind = "publish" /\ ~calls[s].created
        /\ calls[s].status \in {"running", "ok"}
        /\ calls[s].publisher = calls[t].publisher
        /\ calls[s].publisher \in publishers

=============================================================================
